---- MODULE Spec2Model ----
(***************************************************************************)
(* Model of webhook_receiver_sendgrid.py: the /inbound decision extractor, *)
(* the /event purchase endpoint, the decision read endpoint, the metrics   *)
(* counters under _metrics_lock, and the log tail of /admin/logs.          *)
(*                                                                         *)
(* Text is modelled as a sequence of one-character strings, so that the    *)
(* regular expression, str.strip, str.splitlines and the `in` operator are *)
(* computed character by character as Python computes them.               *)
(***************************************************************************)
EXTENDS Integers, Sequences, FiniteSets, TLC

(***************************************************************************)
(* Characters                                                              *)
(***************************************************************************)

\* The characters Python's str.isspace / regex \s accept, within the alphabet used.
Whitespace == {" ", "\n", "\r", "\t"}

\* [a-f0-9] under re.IGNORECASE.
HexChars ==
    {"0", "1", "2", "3", "4", "5", "6", "7", "8", "9",
     "a", "b", "c", "d", "e", "f", "A", "B", "C", "D", "E", "F"}

\* str.lower on one character of the alphabet.
LowerChar(c) ==
    CASE c = "A" -> "a" [] c = "B" -> "b" [] c = "C" -> "c" [] c = "D" -> "d"
      [] c = "E" -> "e" [] c = "F" -> "f" [] c = "T" -> "t" [] c = "O" -> "o"
      [] c = "K" -> "k" [] c = "N" -> "n" [] OTHER -> c

Lower(s) == [i \in 1..Len(s) |-> LowerChar(s[i])]

\* The literal "token" of TOKEN_RE.
TokenWord == <<"t", "o", "k", "e", "n">>

\* {6,32}: the least and the most hex characters TOKEN_RE captures.
TokenMinLen == 6
TokenMaxLen == 32

(***************************************************************************)
(* TOKEN_RE = re.compile(r"(?i)token\s*:\s*([a-f0-9]{6,32})")              *)
(***************************************************************************)

\* Index of the first character at or after i that is not whitespace (greedy \s*).
RECURSIVE SkipSpace(_, _)
SkipSpace(s, i) ==
    IF i <= Len(s) /\ s[i] \in Whitespace THEN SkipSpace(s, i + 1) ELSE i

\* Number of consecutive hex characters from i, at most TokenMaxLen (greedy {6,32}).
RECURSIVE HexRun(_, _, _)
HexRun(s, i, n) ==
    IF n < TokenMaxLen /\ i <= Len(s) /\ s[i] \in HexChars
    THEN HexRun(s, i + 1, n + 1)
    ELSE n

\* The regex tried at start position i: group(1) when it matches, <<>> when not.
MatchAt(s, i) ==
    IF i + 4 > Len(s) \/ Lower(SubSeq(s, i, i + 4)) # TokenWord THEN <<>>
    ELSE LET j == SkipSpace(s, i + 5) IN
         IF j > Len(s) \/ s[j] # ":" THEN <<>>
         ELSE LET k == SkipSpace(s, j + 1)
                  h == HexRun(s, k, 0)
              IN IF h >= TokenMinLen THEN SubSeq(s, k, k + h - 1) ELSE <<>>

\* TOKEN_RE.search(s) scanning start positions left to right; <<>> is "no match".
RECURSIVE SearchFrom(_, _)
SearchFrom(s, i) ==
    IF i > Len(s) THEN <<>>
    ELSE LET m == MatchAt(s, i) IN
         IF m # <<>> THEN m ELSE SearchFrom(s, i + 1)

TokenSearch(s) == SearchFrom(s, 1)

(***************************************************************************)
(* str.strip, str.splitlines, `in`                                         *)
(***************************************************************************)

RECURSIVE LStrip(_)
LStrip(s) ==
    IF s # <<>> /\ Head(s) \in Whitespace THEN LStrip(Tail(s)) ELSE s

RECURSIVE RStrip(_)
RStrip(s) ==
    IF s # <<>> /\ s[Len(s)] \in Whitespace
    THEN RStrip(SubSeq(s, 1, Len(s) - 1))
    ELSE s

Strip(s) == RStrip(LStrip(s))

\* str.splitlines: breaks at "\n", "\r" and "\r\n" (one break); no final empty line.
RECURSIVE SplitFrom(_, _, _, _)
SplitFrom(s, i, cur, acc) ==
    IF i > Len(s) THEN (IF cur = <<>> THEN acc ELSE Append(acc, cur))
    ELSE IF s[i] = "\r" /\ i < Len(s) /\ s[i + 1] = "\n"
         THEN SplitFrom(s, i + 2, <<>>, Append(acc, cur))
    ELSE IF s[i] \in {"\n", "\r"}
         THEN SplitFrom(s, i + 1, <<>>, Append(acc, cur))
    ELSE SplitFrom(s, i + 1, Append(cur, s[i]), acc)

SplitLines(s) == SplitFrom(s, 1, <<>>, <<>>)

\* c in s
Contains(s, c) == \E i \in 1..Len(s) : s[i] = c

(***************************************************************************)
(* inbound(): token and decision extraction (lines 168-190)                *)
(***************************************************************************)

\* A scan that looks for a "1" line in the whole body before it looks for a "2" line.
ScanLinesOneFirst(lines, i) ==
    IF \E k \in i..Len(lines) : Strip(lines[k]) = <<"1">> THEN "1"
    ELSE IF \E k \in i..Len(lines) : Strip(lines[k]) = <<"2">> THEN "2"
    ELSE "None"

\* The for loop over body.splitlines(): first line that strips to "1" or "2", with break.
RECURSIVE ScanLines(_, _)
ScanLines(lines, i) ==
    IF i > Len(lines) THEN "None"
    ELSE LET stripped == Strip(lines[i]) IN
         IF stripped = <<"1">> THEN "1"
         ELSE IF stripped = <<"2">> THEN "2"
         ELSE ScanLines(lines, i + 1)

\* The HTML part preferred over the text.
DecisionBodyHtmlFirst(text, html) ==
    IF html # <<>> THEN html ELSE Strip(text)

\* body = text.strip() or html_body
DecisionBody(text, html) ==
    IF Strip(text) # <<>> THEN Strip(text) ELSE html

\* A fallback that does not look for the other digit.
FallbackOneWins(body) ==
    IF Contains(body, "1") THEN "1"
    ELSE IF Contains(body, "2") THEN "2"
    ELSE "None"

\* if decision is None: substring fallback
Fallback(body) ==
    IF Contains(body, "1") /\ ~Contains(body, "2") THEN "1"
    ELSE IF Contains(body, "2") /\ ~Contains(body, "1") THEN "2"
    ELSE "None"

Decide(body) ==
    LET d == ScanLines(SplitLines(body), 1) IN
    IF d = "None" THEN Fallback(body) ELSE d

\* A search that never retries against the HTML part.
TokenMatchTextOnly(text, html) == TokenSearch(text)

\* token_match = TOKEN_RE.search(text) or TOKEN_RE.search(html_body)
TokenMatch(text, html) ==
    LET m == TokenSearch(text) IN
    IF m # <<>> THEN m ELSE TokenSearch(html)

\* The outcome of inbound's parsing: no_token, no_decision, or a token and a decision.
Extract(text, html) ==
    LET token == TokenMatch(text, html) IN
    IF token = <<>>
    THEN [kind |-> "no_token", token |-> <<>>, decision |-> "None"]
    ELSE LET decision == Decide(DecisionBody(text, html)) IN
         IF decision \notin {"1", "2"}
         THEN [kind |-> "no_decision", token |-> token, decision |-> "None"]
         ELSE [kind |-> "stored", token |-> token, decision |-> decision]

(***************************************************************************)
(* Service state                                                           *)
(***************************************************************************)

VARIABLES
    decisions,  \* DECISIONS_DIR: token |-> content of <token>.json
    purchases,  \* PURCHASES_DIR: millisecond stamp |-> content of purchase_<ms>.json
    metrics,    \* _metrics
    lock,       \* _metrics_lock: 0 when free, else the worker holding it
    log,        \* logs/server.log, one entry per line
    clock,      \* the wall clock, in milliseconds
    th,         \* per worker thread: position in its handler and its locals
    hist,       \* history: successes answered so far, and the last record written per token
    admitted,   \* number of requests received so far
    tl          \* a run of _tail_file on server.log: its file object and locals

vars == <<decisions, purchases, metrics, lock, log, clock, th, hist, admitted, tl>>

\* Bounds of the model.
NumWorkers == 2
MaxRequests == 3
MaxClock == 1

Workers == 1..NumWorkers

\* A file opened with mode "w" and not yet written: it exists and is empty.
EmptyFile == [empty |-> TRUE]

NoData == [none |-> TRUE]

\* JSON values of a payload field.
JMissing == [t |-> "missing", v |-> 0]
JNum(n) == [t |-> "num", v |-> n]
\* A string that float() does not parse, such as "abc".
JStr == [t |-> "str", v |-> 0]
\* The JSON value null.
JNull == [t |-> "null", v |-> 0]

NoRequest ==
    [ep |-> "none", frm |-> "", to |-> "", subject |-> "", text |-> <<>>, html |-> <<>>,
     json |-> "", event |-> "", amount |-> JMissing, order |-> "",
     token |-> <<>>, auth |-> TRUE]

InboundReq(frm, subject, text, html) ==
    [NoRequest EXCEPT !.ep = "inbound", !.frm = frm, !.to = "bot", !.subject = subject,
                      !.text = text, !.html = html]

\* event: the payload's "event" value, "" when the field is missing.
\* json: "unparsable", "falsy" (null, 0, "", [], {}, false), "nonobject" (a non-empty
\* list or string, a non-zero number, true), or "object".
EventReq(json, event, amount, order) ==
    [NoRequest EXCEPT !.ep = "event", !.json = json, !.event = event,
                      !.amount = amount, !.order = order]

DecisionReq(token) == [NoRequest EXCEPT !.ep = "decision", !.token = token]

\* A GET of a listing route; ep is the route, auth the outcome of _check_basic_auth on
\* the request's Authorization header.
ListReq(ep, auth) == [NoRequest EXCEPT !.ep = ep, !.auth = auth]

NoResponse == [code |-> 0, ok |-> FALSE, tag |-> "", data |-> NoData]

Response(code, ok, tag, data) == [code |-> code, ok |-> ok, tag |-> tag, data |-> data]

IdleThread ==
    [pc |-> "idle", req |-> NoRequest, rec |-> NoData, fn |-> <<>>, tmp |-> 0,
     resp |-> NoResponse]

\* A directory with one more (or one replaced) file.
WriteFile(dir, name, content) ==
    [f \in DOMAIN dir \cup {name} |-> IF f = name THEN content ELSE dir[f]]

EmptyDir == [f \in {} |-> EmptyFile]

InitMetrics ==
    [decisions_total |-> 0, purchases_total |-> 0, purchases_amount_usd |-> 0,
     http_requests_total |-> [k \in {} |-> 0]]

\* No tail is running.
NoTail ==
    [pc |-> "none", file |-> <<>>, n |-> 0, size |-> 0, pos |-> 0, block |-> 0,
     data |-> <<>>, lines |-> <<>>]

InitService ==
    /\ decisions = EmptyDir
    /\ purchases = EmptyDir
    /\ metrics = InitMetrics
    /\ lock = 0
    /\ log = <<>>
    /\ clock = 0
    /\ th = [w \in Workers |-> IdleThread]
    /\ hist = [stored |-> 0, accepted |-> 0, amount |-> 0, latest |-> EmptyDir]
    /\ admitted = 0
    /\ tl = NoTail

(***************************************************************************)
(* Helpers of the handlers                                                 *)
(***************************************************************************)

\* _now() and int(time.time()*1000): both read the wall clock.
Now == clock

\* _log_json(line): one appended line of server.log.
LogLine(type, ok, token, detail, amount) ==
    [ts |-> Now, type |-> type, ok |-> ok, token |-> token, detail |-> detail,
     amount |-> amount]

\* Counter updates without the lock.
Unlocked == TRUE

\* with _metrics_lock: the lock can be taken when no thread holds it.
Acquirable == lock = 0

\* float(amount or 0.0) raises for a string that is no number.
FloatRaises(amount) == amount.t = "str"

\* float(amount or 0.0) when it does not raise: a missing amount reads as 0.
FloatValue(amount) == IF amount.t = "num" THEN amount.v ELSE 0

\* The key of _inc_http: (method, path, status); path is the route and its argument.
HttpKey(req, code) ==
    CASE req.ep = "inbound" -> <<"POST", "/inbound", <<>>, code>>
      [] req.ep = "event" -> <<"POST", "/event", <<>>, code>>
      [] req.ep = "decision" -> <<"GET", "/decision/", req.token, code>>
      [] OTHER -> <<"GET", req.ep, <<>>, code>>

\* The response Flask makes when the view function raises: 500, and after_request
\* still runs.
UnhandledError == Response(500, FALSE, "Internal Server Error", NoData)

\* The handler has its response: after_request runs next.
Respond(w, resp) ==
    [th[w] EXCEPT !.pc = "after", !.resp = resp, !.tmp = 0]

(***************************************************************************)
(* POST /inbound (lines 160-196)                                           *)
(***************************************************************************)

\* record = {"token": ..., "decision": ..., "from": ..., "to": ..., "subject": ..., "ts": ...}
DecisionRecord(req, token, decision) ==
    [token |-> token, decision |-> decision, frm |-> req.frm, to |-> req.to,
     subject |-> req.subject, ts |-> Now]

\* Lines 162-193 up to the open of <token>.json: parse, and either answer the failure
\* or open the file for writing (which truncates it).
InboundParse(w) ==
    /\ th[w].pc = "start" /\ th[w].req.ep = "inbound"
    /\ LET req == th[w].req
           ex == Extract(req.text, req.html)
       IN IF ex.kind = "no_token"
          THEN /\ log' = Append(log, LogLine("inbound", FALSE, <<>>, "no_token", JMissing))
               /\ th' = [th EXCEPT ![w] =
                       Respond(w, Response(200, FALSE, "TOKEN not found in message body", NoData))]
               /\ UNCHANGED decisions
          ELSE IF ex.kind = "no_decision"
          THEN /\ log' = Append(log, LogLine("inbound", FALSE, ex.token, "no_decision", JMissing))
               /\ th' = [th EXCEPT ![w] =
                       Respond(w, Response(200, FALSE, "Decision (1/2) not found", NoData))]
               /\ UNCHANGED decisions
          ELSE /\ decisions' = WriteFile(decisions, ex.token, EmptyFile)
               /\ th' = [th EXCEPT ![w].pc = "in_write", ![w].fn = ex.token,
                                   ![w].rec = DecisionRecord(req, ex.token, ex.decision)]
               /\ UNCHANGED log
    /\ UNCHANGED <<purchases, metrics, lock, clock, hist, admitted, tl>>

\* Line 193: write_text writes the record and closes the file.
InboundWrite(w) ==
    /\ th[w].pc = "in_write"
    /\ decisions' = WriteFile(decisions, th[w].fn, th[w].rec)
    /\ th' = [th EXCEPT ![w].pc = "in_inc"]
    /\ hist' = [hist EXCEPT !.latest =
                  [t \in DOMAIN @ \cup {th[w].fn} |-> IF t = th[w].fn THEN th[w].rec ELSE @[t]]]
    /\ UNCHANGED <<purchases, metrics, lock, log, clock, admitted, tl>>

\* _inc_decision, lines 30-31: take the lock and load decisions_total.
IncDecisionLoad(w) ==
    /\ th[w].pc = "in_inc"
    /\ Acquirable
    /\ lock' = w
    /\ th' = [th EXCEPT ![w].pc = "in_inc_store", ![w].tmp = metrics.decisions_total]
    /\ UNCHANGED <<decisions, purchases, metrics, log, clock, hist, admitted, tl>>

\* _inc_decision, line 31: store the sum and leave the with block.
IncDecisionStore(w) ==
    /\ th[w].pc = "in_inc_store"
    /\ metrics' = [metrics EXCEPT !.decisions_total = th[w].tmp + 1]
    /\ lock' = 0
    /\ th' = [th EXCEPT ![w].pc = "in_log", ![w].tmp = 0]
    /\ UNCHANGED <<decisions, purchases, log, clock, hist, admitted, tl>>

\* Lines 195-196: log the store and answer 200 with the stored record.
InboundStored(w) ==
    /\ th[w].pc = "in_log"
    /\ log' = Append(log, LogLine("decision_store", TRUE, th[w].fn, th[w].rec.decision, JMissing))
    /\ th' = [th EXCEPT ![w] = Respond(w, Response(200, TRUE, "stored", th[w].rec))]
    /\ hist' = [hist EXCEPT !.stored = @ + 1]
    /\ UNCHANGED <<decisions, purchases, metrics, lock, clock, admitted, tl>>

(***************************************************************************)
(* GET /decision/<token> (lines 198-207)                                   *)
(***************************************************************************)

\* A read that answers 404 for a token it does not find.
GetDecisionExists404(w) ==
    /\ th[w].pc = "start" /\ th[w].req.ep = "decision"
    /\ th' = IF th[w].req.token \notin DOMAIN decisions
             THEN [th EXCEPT ![w] = Respond(w, Response(404, FALSE, "pending", NoData))]
             ELSE [th EXCEPT ![w].pc = "get_read"]
    /\ UNCHANGED <<decisions, purchases, metrics, lock, log, clock, hist, admitted, tl>>

\* Lines 200-202: p.exists()
GetDecisionExists(w) ==
    /\ th[w].pc = "start" /\ th[w].req.ep = "decision"
    /\ th' = IF th[w].req.token \notin DOMAIN decisions
             THEN [th EXCEPT ![w] = Respond(w, Response(200, FALSE, "pending", NoData))]
             ELSE [th EXCEPT ![w].pc = "get_read"]
    /\ UNCHANGED <<decisions, purchases, metrics, lock, log, clock, hist, admitted, tl>>

\* Lines 203-207: json.loads(p.read_text()); an empty file does not parse.
GetDecisionRead(w) ==
    /\ th[w].pc = "get_read"
    /\ LET content == decisions[th[w].req.token] IN
       th' = IF content = EmptyFile
             THEN [th EXCEPT ![w] = Respond(w, Response(500, FALSE, "error", NoData))]
             ELSE [th EXCEPT ![w] = Respond(w, Response(200, TRUE, "found", content))]
    /\ UNCHANGED <<decisions, purchases, metrics, lock, log, clock, hist, admitted, tl>>

(***************************************************************************)
(* POST /event (lines 356-372)                                             *)
(***************************************************************************)

\* payload with payload["ts"] = _now()
PurchaseRecord(req) ==
    [event |-> req.event, amount |-> req.amount, order |-> req.order, ts |-> Now]

\* request.get_json(...) or {} leaves a dict, except for a truthy JSON value that is
\* no object: payload.get then raises AttributeError.
PayloadGetRaises(req) == req.json = "nonobject"

\* kind = payload.get("event"): None unless the body is an object that has the field.
EventKind(req) == IF req.json = "object" THEN req.event ELSE ""

\* Lines 358-367 up to the open of purchase_<ms>.json.
EventParse(w) ==
    /\ th[w].pc = "start" /\ th[w].req.ep = "event"
    /\ LET req == th[w].req IN
       IF PayloadGetRaises(req)
       THEN /\ th' = [th EXCEPT ![w] = Respond(w, UnhandledError)]
            /\ UNCHANGED <<purchases, log>>
       ELSE IF EventKind(req) = "purchase"
       THEN /\ purchases' = WriteFile(purchases, Now, EmptyFile)
            /\ th' = [th EXCEPT ![w].pc = "ev_write", ![w].fn = Now,
                                ![w].rec = PurchaseRecord(req)]
            /\ UNCHANGED log
       ELSE /\ log' = Append(log, LogLine("event_ignored", FALSE, <<>>, EventKind(req), JMissing))
            /\ th' = [th EXCEPT ![w] =
                    Respond(w, Response(400, FALSE, "unsupported_event", NoData))]
            /\ UNCHANGED purchases
    /\ UNCHANGED <<decisions, metrics, lock, clock, hist, admitted, tl>>

\* Line 367: write_text writes the payload and closes the file.
EventWrite(w) ==
    /\ th[w].pc = "ev_write"
    /\ purchases' = WriteFile(purchases, th[w].fn, th[w].rec)
    /\ th' = [th EXCEPT ![w].pc = "ev_inc"]
    /\ UNCHANGED <<decisions, metrics, lock, log, clock, hist, admitted, tl>>

\* _inc_purchase, lines 33-34: take the lock and load purchases_total.
IncPurchaseLoad(w) ==
    /\ th[w].pc = "ev_inc"
    /\ Acquirable
    /\ lock' = w
    /\ th' = [th EXCEPT ![w].pc = "ev_inc_store", ![w].tmp = metrics.purchases_total]
    /\ UNCHANGED <<decisions, purchases, metrics, log, clock, hist, admitted, tl>>

\* Line 34: store purchases_total.
IncPurchaseTotal(w) ==
    /\ th[w].pc = "ev_inc_store"
    /\ metrics' = [metrics EXCEPT !.purchases_total = th[w].tmp + 1]
    /\ th' = [th EXCEPT ![w].pc = "ev_amt", ![w].tmp = 0]
    /\ UNCHANGED <<decisions, purchases, lock, log, clock, hist, admitted, tl>>

\* Lines 35-38: load purchases_amount_usd and convert the amount; a failed conversion
\* is swallowed and the with block left.
IncPurchaseAmountLoad(w) ==
    /\ th[w].pc = "ev_amt"
    /\ IF FloatRaises(th[w].rec.amount)
       THEN /\ lock' = 0
            /\ th' = [th EXCEPT ![w].pc = "ev_log"]
       ELSE /\ th' = [th EXCEPT ![w].pc = "ev_amt_store",
                                ![w].tmp = metrics.purchases_amount_usd]
            /\ UNCHANGED lock
    /\ UNCHANGED <<decisions, purchases, metrics, log, clock, hist, admitted, tl>>

\* Line 36: store the sum and leave the with block.
IncPurchaseAmountStore(w) ==
    /\ th[w].pc = "ev_amt_store"
    /\ metrics' = [metrics EXCEPT
                     !.purchases_amount_usd = th[w].tmp + FloatValue(th[w].rec.amount)]
    /\ lock' = 0
    /\ th' = [th EXCEPT ![w].pc = "ev_log", ![w].tmp = 0]
    /\ UNCHANGED <<decisions, purchases, log, clock, hist, admitted, tl>>

\* Lines 369-370: log the store and answer 200 with the file name.
EventStored(w) ==
    /\ th[w].pc = "ev_log"
    /\ log' = Append(log, LogLine("purchase_store", TRUE, <<>>, th[w].rec.order, th[w].rec.amount))
    /\ th' = [th EXCEPT ![w] = Respond(w, Response(200, TRUE, "stored", [fn |-> th[w].fn]))]
    /\ hist' = [hist EXCEPT !.accepted = @ + 1,
                            !.amount = @ + (IF th[w].rec.amount.t = "num"
                                            THEN th[w].rec.amount.v ELSE 0)]
    /\ UNCHANGED <<decisions, purchases, metrics, lock, clock, admitted, tl>>

(***************************************************************************)
(* GET /decisions.json, /admin, /purchases.json, /admin/purchases          *)
(* (lines 77-85, 209-267, 338-354, 374-417)                                *)
(***************************************************************************)

DecisionRoutes == {"/decisions.json", "/admin"}
PurchaseRoutes == {"/purchases.json", "/admin/purchases"}
ListRoutes == DecisionRoutes \cup PurchaseRoutes

\* The directory a route lists.
ListDir(req) == IF req.ep \in DecisionRoutes THEN decisions ELSE purchases

\* The loop of _list_json over the globbed files: a file whose text does not parse (an
\* empty one) is skipped.  The directories of the model hold fewer files than the
\* limits 50 and 200, so files[:limit] is every file.
ListJson(dir, files) == [f \in {g \in files : dir[g] # EmptyFile} |-> dir[f]]

\* float(it.get("amount", 0.0)): raises ValueError for a string that is no number and
\* TypeError for null; a missing amount reads as 0.0.
RowFloatRaises(it) == it.amount.t \in {"str", "null"}

\* amt of a row whose conversion does not raise.
RowAmount(it) == IF it.amount.t = "num" THEN it.amount.v ELSE 0

RECURSIVE TotalOf(_)
\* total += amt over the items.
TotalOf(items) ==
    IF DOMAIN items = {} THEN 0
    ELSE LET f == CHOOSE g \in DOMAIN items : TRUE IN
         RowAmount(items[f]) + TotalOf([g \in DOMAIN items \ {f} |-> items[g]])

\* Up to the glob of _list_json: a request that fails _check_basic_auth is answered
\* 401, another one has the names of the directory's files.
ListStart(w) ==
    /\ th[w].pc = "start" /\ th[w].req.ep \in ListRoutes
    /\ th' = IF ~th[w].req.auth
             THEN [th EXCEPT ![w] = Respond(w, Response(401, FALSE, "Unauthorized", NoData))]
             ELSE [th EXCEPT ![w].pc = "list_read",
                             ![w].rec = [files |-> DOMAIN ListDir(th[w].req)]]
    /\ UNCHANGED <<decisions, purchases, metrics, lock, log, clock, hist, admitted, tl>>

\* decisions_json: the items as JSON.
DecisionsJson(w) ==
    /\ th[w].pc = "list_read" /\ th[w].req.ep = "/decisions.json"
    /\ th' = [th EXCEPT ![w] =
                Respond(w, Response(200, TRUE, "items",
                                    [items |-> ListJson(decisions, th[w].rec.files)]))]
    /\ UNCHANGED <<decisions, purchases, metrics, lock, log, clock, hist, admitted, tl>>

\* admin: a table row per item; every field of a decision record is a string (or passed
\* through str), so html.escape does not raise.
Admin(w) ==
    /\ th[w].pc = "list_read" /\ th[w].req.ep = "/admin"
    /\ th' = [th EXCEPT ![w] =
                Respond(w, Response(200, TRUE, "html",
                                    [items |-> ListJson(decisions, th[w].rec.files)]))]
    /\ UNCHANGED <<decisions, purchases, metrics, lock, log, clock, hist, admitted, tl>>

\* _purchases_total_and_rows as the two purchase routes call it: the conversion of an
\* item's amount is outside any try, so its exception leaves the view function.
PurchasesResponse(w, tag) ==
    LET items == ListJson(purchases, th[w].rec.files) IN
    IF \E f \in DOMAIN items : RowFloatRaises(items[f])
    THEN UnhandledError
    ELSE Response(200, TRUE, tag, [total |-> TotalOf(items), items |-> items])

\* purchases_json: total and items as JSON.
PurchasesJson(w) ==
    /\ th[w].pc = "list_read" /\ th[w].req.ep = "/purchases.json"
    /\ th' = [th EXCEPT ![w] = Respond(w, PurchasesResponse(w, "items"))]
    /\ UNCHANGED <<decisions, purchases, metrics, lock, log, clock, hist, admitted, tl>>

\* admin_purchases: total and rows as HTML.
AdminPurchases(w) ==
    /\ th[w].pc = "list_read" /\ th[w].req.ep = "/admin/purchases"
    /\ th' = [th EXCEPT ![w] = Respond(w, PurchasesResponse(w, "html"))]
    /\ UNCHANGED <<decisions, purchases, metrics, lock, log, clock, hist, admitted, tl>>

(***************************************************************************)
(* after_request: _after and _inc_http (lines 25-28, 40-45)                *)
(***************************************************************************)

HttpCount(key) ==
    IF key \in DOMAIN metrics.http_requests_total
    THEN metrics.http_requests_total[key] ELSE 0

\* Lines 26-28: take the lock and load the key's count.
AfterLoad(w) ==
    /\ th[w].pc = "after"
    /\ Acquirable
    /\ lock' = w
    /\ th' = [th EXCEPT ![w].pc = "after_store",
                        ![w].tmp = HttpCount(HttpKey(th[w].req, th[w].resp.code))]
    /\ UNCHANGED <<decisions, purchases, metrics, log, clock, hist, admitted, tl>>

\* Line 28: store the count, leave the with block; the response goes out.
AfterStore(w) ==
    /\ th[w].pc = "after_store"
    /\ metrics' = [metrics EXCEPT !.http_requests_total =
                     WriteFile(@, HttpKey(th[w].req, th[w].resp.code), th[w].tmp + 1)]
    /\ lock' = 0
    /\ th' = [th EXCEPT ![w].pc = "done", ![w].tmp = 0]
    /\ UNCHANGED <<decisions, purchases, log, clock, hist, admitted, tl>>

\* The wall clock advances by a millisecond.
Tick ==
    /\ clock < MaxClock
    /\ clock' = clock + 1
    /\ UNCHANGED <<decisions, purchases, metrics, lock, log, th, hist, admitted, tl>>

(***************************************************************************)
(* Requests                                                                *)
(***************************************************************************)

\* Pieces of message text.
TokUpper == <<"T", "o", "k", "e", "n", ":", " ", "A", "B", "1", "2", "C", "D">>
TokLower == <<"t", "o", "k", "e", "n", ":", " ", "a", "b", "1", "2", "c", "d">>
TokAlpha == <<"T", "O", "K", "E", "N", " ", ":", "a", "b", "c", "d", "e", "f">>
NL == <<"\n">>
CRLF == <<"\r", "\n">>
One == <<"1">>
Two == <<"2">>
SP == <<" ">>

\* The requests clients send to the running service.
InboundRequests ==
    {InboundReq("alice", "s1", TokAlpha \o NL \o One, <<>>),
     InboundReq("bob", "s2", TokAlpha \o NL \o Two, <<>>),
     InboundReq("carol", "s3", One, <<>>),
     InboundReq("dave", "s4", TokLower, <<>>)}

EventRequests ==
    {EventReq("object", "purchase", JNum(5), "X1"),
     EventReq("object", "purchase", JNum(7), "X2"),
     EventReq("object", "purchase", JMissing, "X3"),
     EventReq("object", "purchase", JStr, "X4"),
     EventReq("object", "refund", JNum(5), "X5"),
     EventReq("object", "", JNum(5), "X6"),
     EventReq("unparsable", "", JMissing, ""),
     EventReq("falsy", "", JMissing, ""),
     EventReq("nonobject", "", JMissing, "")}

DecisionRequests ==
    {DecisionReq(<<"a", "b", "c", "d", "e", "f">>),
     DecisionReq(<<"a", "b", "1", "2", "c", "d">>)}

Requests == InboundRequests \cup EventRequests \cup DecisionRequests

\* A worker thread of the server takes the next request.
Receive(w) ==
    /\ th[w].pc \in {"idle", "done"}
    /\ admitted < MaxRequests
    /\ \E r \in Requests : th' = [th EXCEPT ![w] = [IdleThread EXCEPT !.pc = "start", !.req = r]]
    /\ admitted' = admitted + 1
    /\ UNCHANGED <<decisions, purchases, metrics, lock, log, clock, hist, tl>>

Handle(w) ==
    \/ InboundParse(w) \/ InboundWrite(w) \/ IncDecisionLoad(w) \/ IncDecisionStore(w)
    \/ InboundStored(w)
    \/ GetDecisionExists(w) \/ GetDecisionRead(w)
    \/ EventParse(w) \/ EventWrite(w) \/ IncPurchaseLoad(w) \/ IncPurchaseTotal(w)
    \/ IncPurchaseAmountLoad(w) \/ IncPurchaseAmountStore(w) \/ EventStored(w)
    \/ AfterLoad(w) \/ AfterStore(w)

Init == InitService

Next == Tick \/ \E w \in Workers : Receive(w) \/ Handle(w)

Spec == Init /\ [][Next]_vars

(***************************************************************************)
(* One inbound post, over every message body built from a few pieces       *)
(***************************************************************************)

\* The most pieces a message body is built from.
MaxChunks == 3

Vocabulary == {TokUpper, TokLower, TokAlpha, NL, CRLF, One, Two, SP}

RECURSIVE Concat(_)
Concat(chunks) ==
    IF chunks = <<>> THEN <<>> ELSE Head(chunks) \o Concat(Tail(chunks))

Bodies == {Concat(c) : c \in UNION {[1..k -> Vocabulary] : k \in 0..MaxChunks}}

\* The other part of the message: absent, a token, or a digit.
SideBodies == {<<>>, TokAlpha, One, Two}

\* Text parts that are empty after trimming.
BlankTexts == {<<>>, SP, NL}

\* Posts with a built text and a short HTML part, and posts with a blank text and a
\* built HTML part.
BodyRequests ==
    {InboundReq("erin", "s5", t, h) : t \in Bodies, h \in SideBodies}
    \cup {InboundReq("erin", "s5", t, h) : t \in BlankTexts, h \in Bodies}

\* An earlier post, already handled when the post under study arrives.
SeedPost == InboundReq("alice", "s1", TokLower \o NL \o Two, <<>>)

\* The service after handling SeedPost alone, from start to response.
InitSeeded ==
    LET ex == Extract(SeedPost.text, SeedPost.html) IN
    /\ clock = 0
    /\ decisions = WriteFile(EmptyDir, ex.token, DecisionRecord(SeedPost, ex.token, ex.decision))
    /\ purchases = EmptyDir
    /\ metrics = [InitMetrics EXCEPT
                    !.decisions_total = 1,
                    !.http_requests_total = WriteFile(@, HttpKey(SeedPost, 200), 1)]
    /\ lock = 0
    /\ log = <<LogLine("decision_store", TRUE, ex.token, ex.decision, JMissing)>>
    /\ th = [w \in Workers |-> IdleThread]
    /\ hist = [stored |-> 1, accepted |-> 0, amount |-> 0, latest |-> decisions]
    /\ admitted = 1
    /\ tl = NoTail

\* The first worker takes the post under study; no other request arrives.
ReceiveBody ==
    /\ \A w \in Workers : th[w].pc = "idle"
    /\ \E r \in BodyRequests : th' = [th EXCEPT ![1] = [IdleThread EXCEPT !.pc = "start", !.req = r]]
    /\ admitted' = admitted + 1
    /\ UNCHANGED <<decisions, purchases, metrics, lock, log, clock, hist, tl>>

InitInbound == InitService \/ InitSeeded

NextInbound ==
    \/ ReceiveBody
    \/ \E w \in Workers :
         \/ InboundParse(w) \/ InboundWrite(w) \/ IncDecisionLoad(w) \/ IncDecisionStore(w)
         \/ InboundStored(w) \/ AfterLoad(w) \/ AfterStore(w)

SpecInbound == InitInbound /\ [][NextInbound]_vars

(***************************************************************************)
(* The store endpoints together with every read endpoint                   *)
(***************************************************************************)

\* Requests that fill the store, and reads of it.
StoreRequests ==
    {InboundReq("alice", "s1", TokAlpha \o NL \o One, <<>>),
     EventReq("object", "purchase", JNum(5), "X1"),
     EventReq("object", "purchase", JStr, "X4"),
     EventReq("object", "purchase", JNull, "X7")}

ReadRequests ==
    {DecisionReq(<<"a", "b", "c", "d", "e", "f">>),
     ListReq("/decisions.json", TRUE),
     ListReq("/admin", TRUE),
     ListReq("/purchases.json", TRUE),
     ListReq("/admin/purchases", TRUE),
     ListReq("/admin/purchases", FALSE)}

\* A worker thread takes a store request or a read.
ReceiveRead(w) ==
    /\ th[w].pc \in {"idle", "done"}
    /\ admitted < MaxRequests
    /\ \E r \in StoreRequests \cup ReadRequests :
           th' = [th EXCEPT ![w] = [IdleThread EXCEPT !.pc = "start", !.req = r]]
    /\ admitted' = admitted + 1
    /\ UNCHANGED <<decisions, purchases, metrics, lock, log, clock, hist, tl>>

HandleRead(w) ==
    \/ ListStart(w) \/ DecisionsJson(w) \/ Admin(w) \/ PurchasesJson(w) \/ AdminPurchases(w)

NextRead == Tick \/ \E w \in Workers : ReceiveRead(w) \/ Handle(w) \/ HandleRead(w)

SpecRead == Init /\ [][NextRead]_vars

(***************************************************************************)
(* GET /admin/logs and _tail_file (lines 100-118, 143-158)                 *)
(*                                                                         *)
(* server.log is a sequence of lines, each written by _log_json as its     *)
(* JSON text and "\n".  The file is modelled by the byte length of each    *)
(* line's text; a piece of a line read by the tail is the line's index and *)
(* the byte range of its text that the piece holds.                        *)
(***************************************************************************)

\* step = 1024
Step == 1024

\* n = max(1, min(n, 5000))
MaxN == 5000
ClampN(n) == IF n > MaxN THEN MaxN ELSE IF n < 1 THEN 1 ELSE n

\* Bounds: the lines of the log, and the n asked for.
MaxLogLines == 4
MaxTailN == 3

\* Byte lengths of a log line's text (without its "\n").
LineLengths == {100, 600, 1023}

LogFiles == UNION {[1..k -> LineLengths] : k \in 0..MaxLogLines}

\* Offset of line i's first byte.
RECURSIVE LineStart(_, _)
LineStart(file, i) ==
    IF i = 1 THEN 0 ELSE LineStart(file, i - 1) + file[i - 1] + 1

\* f.seek(0, os.SEEK_END); f.tell()
FileSize(file) == IF file = <<>> THEN 0 ELSE LineStart(file, Len(file)) + file[Len(file)] + 1

Max(a, b) == IF a > b THEN a ELSE b
Min(a, b) == IF a < b THEN a ELSE b

\* chunk.splitlines() for the bytes [a, b) of the file: one piece per line that has a
\* byte (of its text or its "\n") in the range, in file order.
RECURSIVE SplitChunk(_, _, _, _)
SplitChunk(file, a, b, i) ==
    IF i > Len(file) THEN <<>>
    ELSE LET s == LineStart(file, i)
             e == s + file[i]
         IN IF Max(a, s) < Min(b, e + 1)
            THEN <<[line |-> i, from |-> Max(a, s) - s, to |-> Min(b, e) - s]>>
                 \o SplitChunk(file, a, b, i + 1)
            ELSE SplitChunk(file, a, b, i + 1)

\* The whole text of line i.
WholeLine(file, i) == [line |-> i, from |-> 0, to |-> file[i]]

\* data[-n:] if data else []
LastN(data, n) ==
    IF Len(data) > n THEN SubSeq(data, Len(data) - n + 1, Len(data)) ELSE data

\* Lines 102-106: open the file, seek to its end, note the size.
TailOpen ==
    /\ tl.pc = "open"
    /\ tl' = [tl EXCEPT !.pc = "loop", !.size = FileSize(tl.file),
                        !.pos = FileSize(tl.file), !.block = -1, !.data = <<>>]
    /\ UNCHANGED <<decisions, purchases, metrics, lock, log, clock, th, hist, admitted>>

\* Lines 108-112: one pass of the while loop.
TailRead ==
    /\ tl.pc = "loop"
    /\ Len(tl.data) <= tl.n /\ tl.pos > 0
    /\ LET start == Max(tl.size + tl.block * Step, 0)
           end == Min(start + Step, tl.size)
       IN tl' = [tl EXCEPT !.pos = end,
                           !.data = tl.data \o SplitChunk(tl.file, start, end, 1),
                           !.block = tl.block - 1]
    /\ UNCHANGED <<decisions, purchases, metrics, lock, log, clock, th, hist, admitted>>

\* Lines 113-114: the loop is left; the last n pieces are the answer.
TailReturn ==
    /\ tl.pc = "loop"
    /\ ~(Len(tl.data) <= tl.n /\ tl.pos > 0)
    /\ tl' = [tl EXCEPT !.pc = "done", !.lines = LastN(tl.data, tl.n)]
    /\ UNCHANGED <<decisions, purchases, metrics, lock, log, clock, th, hist, admitted>>

\* admin_logs with the query parameter n on a log of some content.
InitTail ==
    /\ decisions = EmptyDir
    /\ purchases = EmptyDir
    /\ metrics = InitMetrics
    /\ lock = 0
    /\ log = <<>>
    /\ clock = 0
    /\ th = [w \in Workers |-> IdleThread]
    /\ hist = [stored |-> 0, accepted |-> 0, amount |-> 0, latest |-> EmptyDir]
    /\ admitted = 0
    /\ \E file \in LogFiles, n \in 1..MaxTailN :
         tl = [NoTail EXCEPT !.pc = "open", !.file = file, !.n = ClampN(n)]

NextTail == TailOpen \/ TailRead \/ TailReturn

SpecTail == InitTail /\ [][NextTail]_vars

\* The last min(n, L) lines of the file, whole, each once, in file order.
ExpectedTail(file, n) ==
    LET m == Min(n, Len(file)) IN
    [k \in 1..m |-> WholeLine(file, Len(file) - m + k)]

\* C9 as claimed: /admin/logs returns the last min(n, L) lines of the log, each
\* exactly once and in file order, whatever the log's length.
C9_TailReturnsLastLines ==
    tl.pc = "done" => tl.lines = ExpectedTail(tl.file, tl.n)

(***************************************************************************)
(* Properties of one inbound post                                          *)
(***************************************************************************)

\* The worker has its handler's response.
Answered(w) == th[w].pc \in {"after", "after_store", "done"}

AnsweredInbound(w) == Answered(w) /\ th[w].req.ep = "inbound"

\* The token pattern occurs somewhere in s: "token" in any case, optional whitespace,
\* a colon, optional whitespace, and at least six hex characters.
HasTokenPattern(s) ==
    \E i \in 1..Len(s) :
        /\ i + 4 <= Len(s)
        /\ Lower(SubSeq(s, i, i + 4)) = TokenWord
        /\ \E j \in (i + 5)..Len(s) :
             /\ s[j] = ":"
             /\ \A m \in (i + 5)..(j - 1) : s[m] \in Whitespace
             /\ \E k \in (j + 1)..(Len(s) - 5) :
                  /\ \A m \in (j + 1)..(k - 1) : s[m] \in Whitespace
                  /\ \A m \in k..(k + 5) : s[m] \in HexChars

TokenFound(req) == HasTokenPattern(req.text) \/ HasTokenPattern(req.html)

\* The body the decision is read from, as the specification words it: the plain text
\* when it is not empty after trimming, the HTML otherwise.
ReplyBody(req) ==
    IF \E i \in 1..Len(req.text) : req.text[i] \notin Whitespace THEN req.text ELSE req.html

\* The line is the digit d and nothing else but surrounding whitespace.
IsExactly(line, d) ==
    \E p \in 1..Len(line) :
        line[p] = d /\ \A q \in 1..Len(line) : q # p => line[q] \in Whitespace

\* The lines of the body that are exactly "1" or exactly "2".
ExactLines(b) ==
    LET lines == SplitLines(b) IN
    {k \in 1..Len(lines) : IsExactly(lines[k], "1") \/ IsExactly(lines[k], "2")}

FirstExact(b) ==
    LET exact == ExactLines(b) IN CHOOSE k \in exact : \A j \in exact : k <= j

\* The token the post was stored under, <<>> for a failure.
TokenOf(w) == IF th[w].resp.ok THEN th[w].resp.data.token ELSE <<>>

\* What the post was answered: the stored decision, or "None" for a failure.
DecisionOf(w) == IF th[w].resp.ok THEN th[w].resp.data.decision ELSE "None"

\* The post was answered ok with this token and decision, and <token>.json holds them.
StoredAs(w, token, decision) ==
    /\ th[w].resp.code = 200 /\ th[w].resp.ok
    /\ th[w].resp.data.token = token /\ th[w].resp.data.decision = decision
    /\ token \in DOMAIN decisions /\ decisions[token] = th[w].resp.data

NoTokenResponse == Response(200, FALSE, "TOKEN not found in message body", NoData)
NoDecisionResponse == Response(200, FALSE, "Decision (1/2) not found", NoData)

\* The body holds "Token: AB12CD" in some letter case and, on a later line, exactly "1".
PhraseThenOne(b) ==
    \E i \in 1..(Len(b) - 12) :
        /\ Lower(SubSeq(b, i, i + 12)) = TokLower
        /\ LET rest == SplitLines(SubSeq(b, i + 13, Len(b))) IN
           \E k \in 2..Len(rest) : rest[k] = One

\* C1 as claimed: a body with "Token: AB12CD" (any letter case) followed by a line that
\* is exactly "1" is stored under the lower-cased token "ab12cd" with decision "1".
C1_StoresLowerCasedToken ==
    \A w \in Workers :
        (AnsweredInbound(w) /\ PhraseThenOne(ReplyBody(th[w].req)))
        => StoredAs(w, <<"a", "b", "1", "2", "c", "d">>, "1")

\* C2: when a token is found, the first line of the reply body (in line order) that is
\* exactly "1" or exactly "2" is the decision stored, whatever the other lines hold.
C2_FirstExactLineDecides ==
    \A w \in Workers :
        (AnsweredInbound(w) /\ TokenFound(th[w].req) /\ ExactLines(ReplyBody(th[w].req)) # {})
        => LET b == ReplyBody(th[w].req)
               line == SplitLines(b)[FirstExact(b)]
           IN StoredAs(w, TokenOf(w), IF IsExactly(line, "1") THEN "1" ELSE "2")

\* C2 witness: the text's lines are "2" then "1" (the token is in the HTML part), and
\* the post was stored with decision "2".
C2_Witness ==
    /\ th[1].pc = "done"
    /\ th[1].req.text = Two \o NL \o One /\ th[1].req.html = TokAlpha
    /\ DecisionOf(1) = "2"

\* C3: when a token is found and no line is exactly "1" or "2", the decision is "1"
\* iff the body contains "1" and not "2", "2" iff it contains "2" and not "1", and the
\* post fails with NoDecision in every other case.
C3_SubstringFallback ==
    \A w \in Workers :
        (AnsweredInbound(w) /\ TokenFound(th[w].req) /\ ExactLines(ReplyBody(th[w].req)) = {})
        => LET b == ReplyBody(th[w].req)
               has1 == Contains(b, "1")
               has2 == Contains(b, "2")
           IN /\ (DecisionOf(w) = "1") <=> (has1 /\ ~has2)
              /\ (DecisionOf(w) = "2") <=> (has2 /\ ~has1)
              /\ (has1 <=> has2) => th[w].resp = NoDecisionResponse

\* C3 witness: "Token: AB12CD 1" holds both digits on its only line, and the post was
\* answered NoDecision.
C3_Witness ==
    /\ th[1].pc = "done"
    /\ th[1].req.text = TokUpper \o SP \o One /\ th[1].req.html = <<>>
    /\ th[1].resp = NoDecisionResponse

Count(s, c) == Cardinality({i \in 1..Len(s) : s[i] = c})

Digits == {"0", "1", "2", "3", "4", "5", "6", "7", "8", "9"}

\* The digit occurs in the text outside the token's own characters.
ReplyHasDigit(text, d) ==
    Count(text, d) > (IF HasTokenPattern(text) THEN Count(TokenSearch(text), d) ELSE 0)

\* C4 as claimed: with a valid token anywhere in text or HTML and "2" the only digit
\* of the reply text, the post is stored with decision "2".
C4_OnlyDigitTwoInReply ==
    \A w \in Workers :
        (/\ AnsweredInbound(w) /\ TokenFound(th[w].req)
         /\ ReplyHasDigit(th[w].req.text, "2")
         /\ \A d \in Digits \ {"2"} : ~ReplyHasDigit(th[w].req.text, d))
        => DecisionOf(w) = "2"

\* C4 amended: with a valid token anywhere in text or HTML and a text part that, the
\* token's own characters included, contains "2" and no "1", the post is stored with
\* decision "2".
C4_TextHasTwoAndNoOne ==
    \A w \in Workers :
        (/\ AnsweredInbound(w) /\ TokenFound(th[w].req)
         /\ Contains(th[w].req.text, "2") /\ ~Contains(th[w].req.text, "1"))
        => StoredAs(w, TokenOf(w), "2")

\* C4 witness: "TOKEN :abcdef 2" has no line that is exactly "2"; the substring
\* fallback stored decision "2".
C4_Witness ==
    /\ th[1].pc = "done"
    /\ th[1].req.text = TokAlpha \o SP \o Two
    /\ ExactLines(th[1].req.text) = {}
    /\ DecisionOf(1) = "2"

\* The reply body yields no decision: no exact line, and not exactly one of the digits.
NoDecisionIn(b) ==
    ExactLines(b) = {} /\ (Contains(b, "1") <=> Contains(b, "2"))

\* C6: a post is answered NoToken exactly when neither text nor HTML holds the token
\* pattern, and NoDecision when a token is found but no decision; both answers are
\* HTTP 200 with ok=false and a reason, and handling such a post neither writes nor
\* changes a decision record nor changes decisions_total.
C6_FailuresLeaveStoreAlone ==
    [][\A w \in Workers :
         /\ (th[w].pc = "start" /\ th[w].req.ep = "inbound" /\ th'[w].pc # "start")
            => LET req == th[w].req
                   failed == th'[w].pc = "after"
               IN /\ (failed /\ th'[w].resp = NoTokenResponse) <=> ~TokenFound(req)
                  /\ (TokenFound(req) /\ NoDecisionIn(ReplyBody(req)))
                        => (failed /\ th'[w].resp = NoDecisionResponse)
                  /\ failed => /\ th'[w].resp.code = 200 /\ ~th'[w].resp.ok
                               /\ th'[w].resp.tag # ""
                               /\ decisions' = decisions
                               /\ metrics'.decisions_total = metrics.decisions_total
         /\ (AnsweredInbound(w) /\ ~th[w].resp.ok /\ th'[w] # th[w])
            => /\ decisions' = decisions
               /\ metrics'.decisions_total = metrics.decisions_total]_vars

\* C6 witness: a post whose token "ab12cd" is already stored with decision "2" brought
\* no decision; it was answered NoDecision and the stored record is as it was.
C6_Witness ==
    /\ th[1].pc = "done"
    /\ th[1].req.text = TokLower
    /\ th[1].resp = NoDecisionResponse
    /\ decisions = hist.latest /\ DOMAIN decisions = {<<"a", "b", "1", "2", "c", "d">>}
    /\ decisions[<<"a", "b", "1", "2", "c", "d">>].decision = "2"
    /\ metrics.decisions_total = 1

(***************************************************************************)
(* Properties of the running service                                       *)
(***************************************************************************)

\* No handler is between accepting its request's data and answering it.
NoStoreInFlight == \A w \in Workers : th[w].pc \in {"idle", "start", "get_read"} \/ Answered(w)

\* <token>.json is open for writing and still empty.
MidWrite(t) == t \in DOMAIN decisions /\ decisions[t] = EmptyFile

\* C5: a read of /decision/<token> that does not fall inside a write of that token's
\* file answers 200 "pending" when no post has stored the token, and otherwise 200
\* "found" with exactly the record of the latest post that stored it.
C5_ReadReturnsLatest ==
    [][\A w \in Workers :
         (th[w].req.ep = "decision" /\ ~Answered(w) /\ th'[w].pc = "after")
         => LET t == th[w].req.token IN
            \/ MidWrite(t)
            \/ IF t \in DOMAIN hist.latest
               THEN th'[w].resp = Response(200, TRUE, "found", hist.latest[t])
               ELSE th'[w].resp = Response(200, FALSE, "pending", NoData)]_vars

\* C5 witness: after two stored posts for the same token, a read has answered "found"
\* with the second post's record (bob's decision "2"), alice's being replaced.
C5_Witness ==
    \E w \in Workers :
        /\ th[w].pc = "done" /\ th[w].req.ep = "decision"
        /\ hist.stored = 2
        /\ \E i \in 1..Len(log) : log[i].type = "decision_store" /\ log[i].detail = "1"
        /\ th[w].resp.tag = "found"
        /\ th[w].resp.data.frm = "bob" /\ th[w].resp.data.decision = "2"

\* C7 as claimed: every POST /event whose event is not "purchase" is answered 400
\* unsupported_event, writes no purchase record and leaves the purchase counters alone.
C7_NonPurchaseRejected400 ==
    [][\A w \in Workers :
         (th[w].pc = "start" /\ th[w].req.ep = "event" /\ th'[w].pc # "start"
            /\ ~(th[w].req.json = "object" /\ th[w].req.event = "purchase"))
         => /\ th'[w].resp = Response(400, FALSE, "unsupported_event", NoData)
            /\ purchases' = purchases
            /\ metrics'.purchases_total = metrics.purchases_total
            /\ metrics'.purchases_amount_usd = metrics.purchases_amount_usd]_vars

\* C8: once no store is in flight, purchases_total is the number of accepted purchase
\* events, purchases_amount_usd the sum of their amounts, and decisions_total the
\* number of stored decisions: no increment is lost under any interleaving.
C8_CountersMatchAccepted ==
    NoStoreInFlight =>
        /\ metrics.purchases_total = hist.accepted
        /\ metrics.purchases_amount_usd = hist.amount
        /\ metrics.decisions_total = hist.stored

\* C8 witness: two purchases (5 and 7) handled at the same millisecond by two threads,
\* both answered, and the counters show 2 and 12.
C8_Witness ==
    /\ \A w \in Workers : th[w].pc = "done" /\ th[w].req.ep = "event" /\ th[w].resp.ok
    /\ th[1].resp.data = th[2].resp.data
    /\ hist.accepted = 2 /\ hist.amount = 12
    /\ metrics.purchases_total = 2 /\ metrics.purchases_amount_usd = 12

\* C10 as claimed: every accepted purchase event has its own record file, so the
\* number of purchase records equals the number of accepted purchase events.
C10_OneFilePerPurchase ==
    NoStoreInFlight =>
        /\ Cardinality(DOMAIN purchases) = hist.accepted
        /\ Cardinality(DOMAIN purchases) = metrics.purchases_total

(***************************************************************************)
(* Reads of the store                                                      *)
(***************************************************************************)

\* The worker's request is a read and its view function has returned or raised.
ReadAnswered(w) ==
    /\ th[w].req.ep \in ListRoutes \cup {"decision"}
    /\ Answered(w)

\* C11: whatever accepted /inbound and /event requests have put in the store, every
\* read endpoint (/decision/<token>, /decisions.json, /admin, /purchases.json,
\* /admin/purchases) answers with a response its handler made: no read ends in an
\* exception that leaves the view function.
C11_ReadsAreHandled ==
    \A w \in Workers : ReadAnswered(w) => th[w].resp.tag # UnhandledError.tag

====
